---- MODULE Spec2Model ----
(***************************************************************************)
(* Admission control (token-bucket rate limiter over a shared Redis store)  *)
(* and the result cache of the omnistack gateway.                           *)
(*                                                                          *)
(* Time is counted in ticks, TicksPerSec ticks to the second.  Token counts *)
(* are exact rationals held as integers in units of 1/TokenUnit token, with *)
(* TokenUnit = Window * TicksPerSec, so that the Lua expression             *)
(* rate * time_passed / window is the integer rate * ticks.                 *)
(***************************************************************************)
EXTENDS Integers, Sequences, FiniteSets, TLC

\* ------------------------------------------------------------------ bounds
TicksPerSec == 2
MaxCalls == 3
MaxTicks == 1
StartClock == 1000

\* --------------------------------------------------------------- constants
Window == 60
WindowTicks == Window * TicksPerSec
TokenUnit == Window * TicksPerSec

\* front-end processes serving requests at the same time
Procs == {"fe1", "fe2"}
ClientKeys == {<<"c1">>}
\* subscription tiers a request may carry: the three configured ones and two
\* that are not configured
Tiers == {"free", "pro", "enterprise", "basic", "gold"}
CallTiers == {"free", "basic"}
TickSteps == {1, WindowTicks}

Min(a, b) == IF a <= b THEN a ELSE b

\* ------------------------------------------------------- rate limit config
RateLimitConfig(rpm, burst, prefix) ==
  [requests_per_minute |-> rpm, burst_size |-> burst, key_prefix |-> prefix]

\* variant: the free tier's burst is one short
tier_configs_short ==
  [free       |-> RateLimitConfig(60, 9, <<"rate_limit", "free">>),
   pro        |-> RateLimitConfig(300, 50, <<"rate_limit", "pro">>),
   enterprise |-> RateLimitConfig(1000, 100, <<"rate_limit", "enterprise">>)]

tier_configs ==
  [free       |-> RateLimitConfig(60, 10, <<"rate_limit", "free">>),
   pro        |-> RateLimitConfig(300, 50, <<"rate_limit", "pro">>),
   enterprise |-> RateLimitConfig(1000, 100, <<"rate_limit", "enterprise">>)]

\* the default_config argument of RateLimiter.__init__: the built-in default
\* and a caller-supplied one whose rate is below its burst
DefaultConfigs ==
  {RateLimitConfig(60, 10, <<"rate_limit">>),
   RateLimitConfig(1, 2, <<"rate_limit">>)}

\* self.tier_configs.get(subscription_tier, self.default_config)
ResolveConfig(tier, dflt) ==
  IF tier \in DOMAIN tier_configs THEN tier_configs[tier] ELSE dflt

\* variant: the tier prefix is left out of the bucket key
BucketKeyNoPrefix(config, key) == <<"rate_limit">> \o key

\* f"{config.key_prefix}:{key}"; a string is the sequence of its
\* colon-separated segments
BucketKey(config, key) == config.key_prefix \o key

\* a client key that holds the separator: "free:c1"
ColonKeys == {<<"free", "c1">>}

AllBucketKeys ==
  {BucketKey(ResolveConfig(t, d), k) :
     t \in Tiers, d \in DefaultConfigs, k \in ClientKeys \cup ColonKeys}

\* ------------------------------------------------------------ shared store
NoBucket == [present |-> FALSE, tokens |-> 0, last_update |-> 0, expire_at |-> 0]

\* Redis drops a key once the server clock is past its expiry
Live(rec, t) == rec.present /\ t <= rec.expire_at

\* redis.call('hgetall', bucket_key)
HGetAll(st, bk, t) == IF Live(st[bk], t) THEN st[bk] ELSE NoBucket

\* variant: the refill is not capped at the burst size
NewTokensUncapped(tokens, time_passed, rate, burst) == tokens + rate * time_passed

\* math.min(burst, tokens + rate * time_passed / window)
NewTokens(tokens, time_passed, rate, burst) ==
  Min(burst * TokenUnit, tokens + rate * time_passed)

\* variant: a token is granted only when more than one is available
LuaScriptStrict(bucket, now, rate, burst) ==
  LET tokens == IF bucket.present THEN bucket.tokens ELSE burst * TokenUnit
      last_update == IF bucket.present THEN bucket.last_update ELSE 0
      new_tokens == NewTokens(tokens, now - last_update, rate, burst)
  IN  IF new_tokens > TokenUnit
        THEN [ret |-> 1, write |-> TRUE, tokens |-> new_tokens - TokenUnit,
              last_update |-> now, new_tokens |-> new_tokens]
        ELSE [ret |-> 0, write |-> FALSE, tokens |-> tokens,
              last_update |-> last_update, new_tokens |-> new_tokens]

\* variant: the granted token is not taken out of the bucket
LuaScriptNoDecrement(bucket, now, rate, burst) ==
  LET tokens == IF bucket.present THEN bucket.tokens ELSE burst * TokenUnit
      last_update == IF bucket.present THEN bucket.last_update ELSE 0
      new_tokens == NewTokens(tokens, now - last_update, rate, burst)
  IN  IF new_tokens >= TokenUnit
        THEN [ret |-> 1, write |-> TRUE, tokens |-> new_tokens,
              last_update |-> now, new_tokens |-> new_tokens]
        ELSE [ret |-> 0, write |-> FALSE, tokens |-> tokens,
              last_update |-> last_update, new_tokens |-> new_tokens]

\* variant: a refused call moves last_update to its own timestamp and
\* credits nothing for the time that passed
LuaScriptPenalty(bucket, now, rate, burst) ==
  LET tokens == IF bucket.present THEN bucket.tokens ELSE burst * TokenUnit
      last_update == IF bucket.present THEN bucket.last_update ELSE 0
      time_passed == now - last_update
      new_tokens == NewTokens(tokens, time_passed, rate, burst)
  IN  IF new_tokens >= TokenUnit
        THEN [ret |-> 1, write |-> TRUE, tokens |-> new_tokens - TokenUnit,
              last_update |-> now, new_tokens |-> new_tokens]
        ELSE [ret |-> 0, write |-> TRUE, tokens |-> tokens,
              last_update |-> now, new_tokens |-> new_tokens]

\* the Lua script of check_rate_limit, run on the loaded bucket
LuaScript(bucket, now, rate, burst) ==
  LET tokens == IF bucket.present THEN bucket.tokens ELSE burst * TokenUnit
      last_update == IF bucket.present THEN bucket.last_update ELSE 0
      time_passed == now - last_update
      new_tokens == NewTokens(tokens, time_passed, rate, burst)
  IN  IF new_tokens >= TokenUnit
        THEN [ret |-> 1, write |-> TRUE, tokens |-> new_tokens - TokenUnit,
              last_update |-> now, new_tokens |-> new_tokens]
        ELSE [ret |-> 0, write |-> FALSE, tokens |-> tokens,
              last_update |-> last_update, new_tokens |-> new_tokens]

\* variant: a failed check refuses the request
FailClosed == FALSE

\* return True  # Allow request if rate limit check fails
FailOpen == TRUE

NoHeaders == [present |-> FALSE, limit |-> 0, remaining |-> 0, reset |-> 0]

\* RateLimiter.get_rate_limit_headers on a reachable store
RateLimitHeaders(bucket, config) ==
  LET tokens == IF bucket.present THEN bucket.tokens ELSE config.burst_size * TokenUnit
  IN  [present |-> TRUE, limit |-> config.requests_per_minute,
       remaining |-> tokens \div TokenUnit, reset |-> 60]

\* ------------------------------------------------------------ result cache
\* a Python value: its type, the type of its keys (dicts) and its content
PyValue(type, keytype, items) == [type |-> type, keytype |-> keytype, items |-> items]

PyNone == PyValue("None", "none", <<>>)

\* "tv", [1, 2], {"1": 42}, CustomObject(42)
PyValues ==
  {PyValue("str", "none", <<116, 118>>),
   PyValue("list", "none", <<1, 2>>),
   PyValue("dict", "str", <<1, 42>>),
   PyValue("object", "none", <<42>>)}

CacheKeys == {"test_key", "binary_key"}

\* hashlib.md5(...).hexdigest(): a digest that names its input
Md5(text) == "md5(" \o text \o ")"

\* the key built by the cached decorator for func(*args), key_prefix "":
\* ":".join([key_prefix, func.__name__, md5(str(args))])
WrapperKey(func, args) == "" \o ":" \o func \o ":" \o Md5(args)

\* tasks calling one decorated function with the same arguments
Callers == {"t1", "t2"}
WrapperKeys == {WrapperKey("compute", "('a',)")}

\* --------------------------------------------------------- analysis service
\* the code and context arguments of analyze_code
Codes == {"def f(): pass", "x = 1"}
Contexts == {"None", "{'lang': 'py'}"}
CodeIndex == [c \in Codes |-> IF c = "def f(): pass" THEN 1 ELSE 2]

\* PYTHONHASHSEED of a process: str hashes are salted per interpreter
Seeds == {1, 2}
NoSeed == 0

\* hash(code) in a process of the given seed
StrHash(seed, code) == seed * 10 + CodeIndex[code]

\* f"analysis:{hash(code)}"
AnalysisKey(seed, code, context) == "analysis:" \o ToString(StrHash(seed, code))

AnalysisKeys == {AnalysisKey(sd, c, x) : sd \in Seeds, c \in Codes, x \in Contexts}

\* the three analysis tasks of analyze_code, in the order of the tasks list
Branches == {"context", "debug", "optimization"}
BranchIndex == [b \in Branches |->
                 IF b = "context" THEN 1 ELSE IF b = "debug" THEN 2 ELSE 3]

\* concurrent calls of analyze_code
Calls == {"a1", "a2"}
CallIndex == [a \in Calls |-> IF a = "a1" THEN 1 ELSE 2]

\* ThreadPoolExecutor(max_workers=self.config.get_api_config().workers)
workers == 4

\* the methods TelemetryManager defines
TelemetryMethods ==
  {"record_request", "record_model_inference", "start_operation_tracking",
   "record_performance_metrics"}

\* self.telemetry.<name>(...): AttributeError when the method is not defined
CallTelemetry(name) == IF name \in TelemetryMethods THEN "none" ELSE "AttributeError"

\* "await <value>": only coroutines, tasks and futures can be awaited
Awaitable(v) == v.type \in {"coroutine", "task", "future"}

\* the providers find issues in the first of the codes and none in the other
HasFindings(code) == CodeIndex[code] = 1

\* result.__dict__ of the AnalysisResult built from the branch results: its
\* issues and optimizations are the lists of DebugIssue and
\* OptimizationSuggestion objects that the providers returned
AnalysisResult(code, now) ==
  PyValue(IF HasFindings(code) THEN "dict of objects" ELSE "dict", "str",
          <<CodeIndex[code], now>>)

\* variant: shutdown(wait=False)
ShutdownNoWait == FALSE

\* self.executor.shutdown(wait=True)
ShutdownWait == TRUE

AllCacheKeys == CacheKeys \cup WrapperKeys \cup AnalysisKeys

\* CacheManager.__init__(default_ttl=3600)
default_ttl == 3600

\* the ttl argument of set: omitted (None), or a number of seconds
NoTtl == 0
TtlArgs == {NoTtl, 1}

\* json.dumps: a JSON text (string, array or object) or TypeError; tuples
\* are written as arrays and dict keys as strings
JsonDumps(v) ==
  CASE v.type = "str" -> [ok |-> TRUE, doc |-> PyValue("string", "none", v.items)]
    [] v.type \in {"list", "tuple"} -> [ok |-> TRUE, doc |-> PyValue("array", "none", v.items)]
    [] v.type = "dict" -> [ok |-> TRUE, doc |-> PyValue("object", "str", v.items)]
    [] OTHER -> [ok |-> FALSE, doc |-> PyNone]

\* json.loads of a JSON text
JsonLoads(doc) ==
  CASE doc.type = "string" -> PyValue("str", "none", doc.items)
    [] doc.type = "array" -> PyValue("list", "none", doc.items)
    [] OTHER -> PyValue("dict", "str", doc.items)

\* pickle.dumps: the bytes hold the value as it is
PickleDumps(v) == v

\* the json module has JSONDecodeError but no JSONEncodeError: evaluating
\* the except clause of set raises AttributeError
JSONEncodeErrorExists == FALSE

\* the value that set hands to Redis for the key: the serialized payload on
\* its own, with nothing beside it
RedisValue(serialized) == [payload |-> serialized]

NoEntry == [present |-> FALSE, fmt |-> "json", body |-> PyNone, expire_at |-> 0]

\* the outcome of an operation: the exception raised, if any, and the value
Outcome(op, key, raised, value) ==
  [op |-> op, key |-> key, raised |-> raised, value |-> value]

NoOutcome == Outcome("none", "", "none", PyNone)

\* CacheManager.set: what is stored (if anything) and what is raised
SetEffect(value) ==
  LET d == JsonDumps(value)
  IN  IF d.ok THEN [store |-> TRUE, fmt |-> "json", body |-> d.doc, raised |-> "none"]
      ELSE IF JSONEncodeErrorExists
        THEN [store |-> TRUE, fmt |-> "pickle", body |-> PickleDumps(value),
              raised |-> "none"]
        ELSE [store |-> FALSE, fmt |-> "json", body |-> PyNone,
              raised |-> "AttributeError"]

\* CacheManager.get on the entry found: redis_client decodes the bytes as
\* UTF-8 (pickled bytes are not, and UnicodeDecodeError is not handled), then
\* json.loads parses the text; set writes no text that json.loads rejects, so
\* the JSONDecodeError handler is not entered
GetResult(entry, default) ==
  IF ~entry.present THEN [raised |-> "none", value |-> default]
  ELSE IF entry.fmt = "pickle" THEN [raised |-> "UnicodeDecodeError", value |-> PyNone]
  ELSE [raised |-> "none", value |-> JsonLoads(entry.body)]

\* ------------------------------------------------------------------- state
VARIABLES
  default_config,  \* RateLimiter.default_config
  store,           \* Redis: bucket key -> hash {tokens, last_update} with expiry
  clock,           \* true (server) time in ticks
  pc,              \* per front-end request: position in the middleware
  req,             \* per request: client key, tier, time.time() argument
  allowed,         \* per request: result of check_rate_limit
  status,          \* per request: HTTP status raised/returned (0 = none yet)
  headers,         \* per request: rate-limit headers of the response
  errlog,          \* per request: logger.error was called by check_rate_limit
  own,             \* history: tokens left by this request's own consume
  log,             \* history: the Lua script runs, in store order
  calls, ticks,
  cache,           \* Redis: cache key -> stored bytes with expiry
  cache_ret,       \* outcome of the cache operation that has just completed
  last_set,        \* history: the last set(key, value, ttl) issued per key
  deleted,         \* history: the keys named by the delete that has just
                   \* completed, and the keys deleted and not set since
  wr,              \* per task in the cached wrapper: position and outcome
  wseq,            \* history: number of wrapper steps taken
  az,              \* per analyze_code call: arguments, position, branches, outcome
  hashseed,        \* per process: the hash seed of its interpreter, once used
  shut             \* per process: the state of the service manager's executor

vars == <<default_config, store, clock, pc, req, allowed, status,
          headers, errlog, own, log, calls, ticks, cache, cache_ret, last_set,
          deleted, wr, wseq, az, hashseed, shut>>

\* the state of the cached wrapper
wrvars == <<wr, wseq>>

\* the state of the analysis service
azvars == <<az, hashseed, shut>>

cachevars == <<cache, cache_ret, last_set, deleted>>

NoSet == [issued |-> FALSE, value |-> PyNone, expire_at |-> 0]

NoDelete == [named |-> {}, since |-> {}]

NoCall == [pc |-> "idle", miss_at |-> 0, store_at |-> 0, computed |-> 0,
           value |-> PyNone, raised |-> "none"]

NoBranches == [b \in Branches |-> "none"]

NoAnalysis ==
  [pc |-> "idle", proc |-> "fe1", code |-> "x = 1", context |-> "None",
   use_cache |-> FALSE, up |-> TRUE, key |-> "", branch |-> NoBranches,
   raised |-> "none", result |-> PyNone, telemetry |-> 0, wrote |-> FALSE,
   after |-> {}]

OpenPool == [state |-> "open", pending |-> 0]

NoReq == [key |-> <<>>, tier |-> "free", now |-> 0]

Init ==
  /\ default_config \in DefaultConfigs
  /\ store = [bk \in AllBucketKeys |-> NoBucket]
  /\ clock = StartClock
  /\ pc = [p \in Procs |-> "idle"]
  /\ req = [p \in Procs |-> NoReq]
  /\ allowed = [p \in Procs |-> FALSE]
  /\ status = [p \in Procs |-> 0]
  /\ headers = [p \in Procs |-> NoHeaders]
  /\ errlog = [p \in Procs |-> FALSE]
  /\ own = [p \in Procs |-> 0]
  /\ log = <<>>
  /\ calls = 0
  /\ ticks = 0
  /\ cache = [k \in AllCacheKeys |-> NoEntry]
  /\ cache_ret = NoOutcome
  /\ last_set = [k \in AllCacheKeys |-> NoSet]
  /\ deleted = NoDelete
  /\ wr = [c \in Callers |-> NoCall]
  /\ wseq = 0
  /\ az = [a \in Calls |-> NoAnalysis]
  /\ hashseed = [p \in Procs |-> NoSeed]
  /\ shut = [p \in Procs |-> OpenPool]

Config(p) == ResolveConfig(req[p].tier, default_config)
ReqBucket(p) == BucketKey(Config(p), req[p].key)

\* rate_limit_middleware up to the evaluation of the arguments of redis.eval:
\* key and tier are taken from the request, time.time() is read locally
StartRequest(p, key, tier, max) ==
  /\ pc[p] \in {"idle", "rejected", "responded"}
  /\ calls < max
  /\ calls' = calls + 1
  /\ pc' = [pc EXCEPT ![p] = "eval"]
  /\ req' = [req EXCEPT ![p] = [key |-> key, tier |-> tier, now |-> clock]]
  /\ allowed' = [allowed EXCEPT ![p] = FALSE]
  /\ status' = [status EXCEPT ![p] = 0]
  /\ headers' = [headers EXCEPT ![p] = NoHeaders]
  /\ errlog' = [errlog EXCEPT ![p] = FALSE]
  /\ own' = [own EXCEPT ![p] = 0]
  /\ UNCHANGED <<default_config, store, clock, log, ticks>>
  /\ UNCHANGED cachevars
  /\ UNCHANGED wrvars
  /\ UNCHANGED azvars

\* variant: the middleware goes on to call_next whatever check_rate_limit
\* returned
BranchThenCallNext(p, ok) ==
  /\ allowed' = [allowed EXCEPT ![p] = ok]
  /\ pc' = [pc EXCEPT ![p] = "admitted"]
  /\ status' = [status EXCEPT ![p] = IF ok THEN 0 ELSE 429]

\* the middleware's branch on the result of check_rate_limit:
\* raise HTTPException(status_code=429) when it is false
Branch(p, ok) ==
  /\ allowed' = [allowed EXCEPT ![p] = ok]
  /\ pc' = [pc EXCEPT ![p] = IF ok THEN "admitted" ELSE "rejected"]
  /\ status' = [status EXCEPT ![p] = IF ok THEN 0 ELSE 429]

\* redis.eval(lua_script, ...) on a reachable store, the return of
\* check_rate_limit and the middleware's branch on it
CheckRateLimit(p) ==
  /\ pc[p] = "eval"
  /\ LET cfg == Config(p)
         bk == ReqBucket(p)
         bucket == HGetAll(store, bk, clock)
         r == LuaScript(bucket, req[p].now, cfg.requests_per_minute, cfg.burst_size)
     IN  /\ store' = IF r.write
                       THEN [store EXCEPT ![bk] =
                               [present |-> TRUE, tokens |-> r.tokens,
                                last_update |-> r.last_update,
                                expire_at |-> clock + WindowTicks]]
                       ELSE store
         /\ own' = [own EXCEPT ![p] = IF r.write THEN r.tokens ELSE r.new_tokens]
         /\ log' = Append(log, [bk |-> bk, now |-> req[p].now, at |-> clock,
                                rate |-> cfg.requests_per_minute,
                                burst |-> cfg.burst_size,
                                fresh |-> ~bucket.present,
                                refilled |-> r.new_tokens, allowed |-> (r.ret # 0)])
         /\ Branch(p, r.ret # 0)
  /\ UNCHANGED <<default_config, clock, req, headers, errlog, calls, ticks>>
  /\ UNCHANGED cachevars
  /\ UNCHANGED wrvars
  /\ UNCHANGED azvars

\* the store is unreachable and redis.eval raises: the except branch of
\* check_rate_limit logs the error and returns
CheckRateLimitFails(p) ==
  /\ pc[p] = "eval"
  /\ errlog' = [errlog EXCEPT ![p] = TRUE]
  /\ Branch(p, FailOpen)
  /\ UNCHANGED <<default_config, store, clock, req, headers, own, log, calls, ticks>>
  /\ UNCHANGED cachevars
  /\ UNCHANGED wrvars
  /\ UNCHANGED azvars

\* get_rate_limit_headers (a second, separate read of the bucket), then
\* call_next and the copy of request.state.rate_limit_headers to the response
Respond(p, hdrs) ==
  /\ pc[p] = "admitted"
  /\ headers' = [headers EXCEPT ![p] = hdrs]
  /\ pc' = [pc EXCEPT ![p] = "responded"]
  /\ status' = [status EXCEPT ![p] = 200]
  /\ UNCHANGED <<default_config, store, clock, req, allowed, errlog, own,
                 log, calls, ticks>>
  /\ UNCHANGED cachevars
  /\ UNCHANGED wrvars
  /\ UNCHANGED azvars

GetRateLimitHeaders(p) ==
  Respond(p, RateLimitHeaders(HGetAll(store, ReqBucket(p), clock), Config(p)))

\* the store is unreachable and redis.hgetall raises: the except branch of
\* get_rate_limit_headers returns {}
GetRateLimitHeadersFails(p) == Respond(p, NoHeaders)

\* time passes; Redis removes the keys whose expiry is past
Tick(d, max) ==
  /\ ticks < max
  /\ ticks' = ticks + 1
  /\ clock' = clock + d
  /\ store' = [bk \in AllBucketKeys |->
                 IF Live(store[bk], clock + d) THEN store[bk] ELSE NoBucket]
  /\ cache' = [k \in DOMAIN cache |->
                 IF Live(cache[k], clock + d) THEN cache[k] ELSE NoEntry]
  /\ cache_ret' = NoOutcome
  /\ UNCHANGED <<default_config, pc, req, allowed, status, headers,
                 errlog, own, log, calls, last_set, deleted>>
  /\ UNCHANGED wrvars
  /\ UNCHANGED azvars

rlvars == <<default_config, store, pc, req, allowed, status, headers, errlog,
            own, log, calls>>

\* CacheManager.set(key, value, ttl) on the store
SetOnStore(key, value, ttlarg) ==
  LET ttl == IF ttlarg = NoTtl THEN default_ttl ELSE ttlarg
      e == SetEffect(value)
      expire_at == clock + ttl * TicksPerSec
  IN  /\ cache' = IF e.store
                     THEN [cache EXCEPT ![key] =
                             [present |-> TRUE, fmt |-> e.fmt, body |-> e.body,
                              expire_at |-> expire_at]]
                     ELSE cache
      /\ cache_ret' = Outcome("set", key, e.raised, PyNone)
      /\ last_set' = [last_set EXCEPT ![key] =
                        [issued |-> TRUE, value |-> value, expire_at |-> expire_at]]
      /\ deleted' = [named |-> {},
                     since |-> IF e.store THEN deleted.since \ {key} ELSE deleted.since]

\* CacheManager.set(key, value, ttl) called on its own
CacheSet(key, value, ttlarg) ==
  /\ SetOnStore(key, value, ttlarg)
  /\ UNCHANGED <<rlvars, clock, ticks, wrvars, azvars>>

\* CacheManager.get(key, default) on the store
GetFromStore(key, default) ==
  LET entry == IF Live(cache[key], clock) THEN cache[key] ELSE NoEntry
      r == GetResult(entry, default)
  IN  /\ cache_ret' = Outcome("get", key, r.raised, r.value)
      /\ UNCHANGED <<cache, last_set, deleted>>

\* CacheManager.get(key, default) called on its own
CacheGet(key, default) ==
  /\ GetFromStore(key, default)
  /\ UNCHANGED <<rlvars, clock, ticks, wrvars, azvars>>

\* the cached wrapper up to "await func(...)": the key is built and looked
\* up; a value other than None is returned, otherwise func is called
WrapperLookup(c, func, args, max) ==
  /\ wr[c].pc \in {"idle", "done"}
  /\ calls < max
  /\ calls' = calls + 1
  /\ wseq' = wseq + 1
  /\ GetFromStore(WrapperKey(func, args), PyNone)
  /\ LET got == cache_ret'
     IN  wr' = [wr EXCEPT ![c] =
                  IF got.raised # "none"
                    THEN [NoCall EXCEPT !.pc = "done", !.raised = got.raised]
                  ELSE IF got.value # PyNone
                    THEN [NoCall EXCEPT !.pc = "done", !.value = got.value]
                  ELSE [NoCall EXCEPT !.pc = "computing", !.miss_at = wseq + 1]]
  /\ UNCHANGED <<default_config, store, clock, pc, req, allowed, status,
                 headers, errlog, own, log, ticks>>
  /\ UNCHANGED azvars

\* the cached wrapper from the return of func: the result is written with
\* the decorator's ttl (None) and returned
WrapperStore(c, func, args, result) ==
  /\ wr[c].pc = "computing"
  /\ wseq' = wseq + 1
  /\ SetOnStore(WrapperKey(func, args), result, NoTtl)
  /\ wr' = [wr EXCEPT ![c] =
               [pc |-> "done", miss_at |-> wr[c].miss_at, store_at |-> wseq + 1,
                computed |-> wr[c].computed + 1,
                value |-> IF cache_ret'.raised = "none" THEN result ELSE PyNone,
                raised |-> cache_ret'.raised]]
  /\ UNCHANGED <<rlvars, clock, ticks>>
  /\ UNCHANGED azvars

\* the end of an analyze_code call: the exception raised or the result
EndCall(a, rec, raised, result) ==
  az' = [az EXCEPT ![a] =
           [rec EXCEPT !.pc = "done", !.raised = raised, !.result = result]]

\* analyze_code up to the creation of the tasks: with use_cache the key is
\* built from hash(code), looked up and the value returned by the lookup is
\* awaited; the lookup is outside the try block, so what it raises reaches
\* the caller directly; the calls are numbered in the order they arrive, and
\* each notes the calls that had ended when it arrived
AnalyzeStart(a, p, code, context, use_cache, up) ==
  /\ az[a].pc = "idle"
  /\ \A c \in Calls : CallIndex[c] < CallIndex[a] => az[c].pc # "idle"
  /\ \E sd \in Seeds :
       /\ hashseed[p] \in {NoSeed, sd}
       /\ hashseed' = [hashseed EXCEPT ![p] = sd]
       /\ LET key == IF use_cache THEN AnalysisKey(sd, code, context) ELSE ""
              rec == [NoAnalysis EXCEPT !.proc = p, !.code = code,
                        !.context = context, !.use_cache = use_cache,
                        !.up = up, !.key = key,
                        !.after = {c \in Calls : az[c].pc = "done"}]
          IN  IF ~use_cache
                THEN /\ az' = [az EXCEPT ![a] = [rec EXCEPT !.pc = "gather"]]
                     /\ UNCHANGED cachevars
              ELSE IF ~up
                THEN /\ EndCall(a, rec, "ConnectionError", PyNone)
                     /\ UNCHANGED cachevars
              ELSE /\ GetFromStore(key, PyNone)
                   /\ LET got == cache_ret'.value
                      IN  IF ~Awaitable(got)
                            THEN EndCall(a, rec, "TypeError", PyNone)
                          ELSE IF got # PyNone
                            THEN EndCall(a, rec, "none", got)
                          ELSE az' = [az EXCEPT ![a] = [rec EXCEPT !.pc = "gather"]]
  /\ UNCHANGED <<rlvars, clock, ticks, wrvars, shut>>

\* the tasks of process p that the executor holds in the given states
InPool(p, states) ==
  {<<a, b>> \in Calls \X Branches : az[a].proc = p /\ az[a].branch[b] \in states}

\* loop.run_in_executor(self.executor, ...): submit raises RuntimeError once
\* the executor has been shut down; the event loop starts the tasks of one
\* gather in the order of the tasks list
Submit(a, b) ==
  /\ az[a].pc = "gather"
  /\ az[a].branch[b] = "none"
  /\ \A e \in Branches : BranchIndex[e] < BranchIndex[b] => az[a].branch[e] # "none"
  /\ az' = [az EXCEPT ![a].branch[b] =
               IF shut[az[a].proc].state = "open" THEN "queued" ELSE "refused"]
  /\ UNCHANGED <<rlvars, clock, ticks, cachevars, wrvars, hashseed, shut>>

\* variant: a task starts as soon as it is submitted, whatever the number
\* of tasks already running
RunBranchUnbounded(a, b) ==
  /\ az[a].branch[b] = "queued"
  /\ \A e \in Branches : BranchIndex[e] < BranchIndex[b] => az[a].branch[e] # "queued"
  /\ az' = [az EXCEPT ![a].branch[b] = "running"]
  /\ UNCHANGED <<rlvars, clock, ticks, cachevars, wrvars, hashseed, shut>>

\* a worker thread takes the task from the queue, which is first in first
\* out
RunBranch(a, b) ==
  /\ az[a].branch[b] = "queued"
  /\ \A e \in Branches : BranchIndex[e] < BranchIndex[b] => az[a].branch[e] # "queued"
  /\ Cardinality(InPool(az[a].proc, {"running"})) < workers
  /\ az' = [az EXCEPT ![a].branch[b] = "running"]
  /\ UNCHANGED <<rlvars, clock, ticks, cachevars, wrvars, hashseed, shut>>

\* the provider returns or raises
FinishBranch(a, b, ok) ==
  /\ az[a].branch[b] = "running"
  /\ az' = [az EXCEPT ![a].branch[b] = IF ok THEN "done" ELSE "failed"]
  /\ UNCHANGED <<rlvars, clock, ticks, cachevars, wrvars, hashseed, shut>>

\* the except branch of analyze_code: logger.error, then
\* self.telemetry.record_error(...), then raise
HandlerRaises(caught) ==
  IF CallTelemetry("record_error") # "none" THEN CallTelemetry("record_error") ELSE caught

\* variant: the failure is raised once every task of the gather has ended
GatherRaisesJoined(a) ==
  /\ az[a].pc = "gather"
  /\ \A b \in Branches : az[a].branch[b] \in {"done", "failed", "refused"}
  /\ \E b \in Branches : az[a].branch[b] \in {"failed", "refused"}
  /\ LET caught == IF \E b \in Branches : az[a].branch[b] = "failed"
                     THEN "ProviderFailure" ELSE "RuntimeError"
     IN  EndCall(a, az[a], HandlerRaises(caught), PyNone)
  /\ UNCHANGED <<rlvars, clock, ticks, cachevars, wrvars, hashseed, shut>>

\* asyncio.gather raises the exception of the first task that failed, once
\* every task has taken its first step; the other tasks are left running
GatherRaises(a) ==
  /\ az[a].pc = "gather"
  /\ \A b \in Branches : az[a].branch[b] # "none"
  /\ \E b \in Branches : az[a].branch[b] \in {"failed", "refused"}
  /\ LET caught == IF \E b \in Branches : az[a].branch[b] = "failed"
                     THEN "ProviderFailure" ELSE "RuntimeError"
     IN  EndCall(a, az[a], HandlerRaises(caught), PyNone)
  /\ UNCHANGED <<rlvars, clock, ticks, cachevars, wrvars, hashseed, shut>>

\* all three tasks returned: the result is built, written to the cache when
\* use_cache, the telemetry record is emitted and the result returned; an
\* exception on the way is handled by the except branch
GatherReturns(a) ==
  /\ az[a].pc = "gather"
  /\ \A b \in Branches : az[a].branch[b] = "done"
  /\ LET result == AnalysisResult(az[a].code, clock)
         set_raised == IF ~az[a].use_cache THEN "none"
                       ELSE IF SetEffect(result).raised # "none"
                         THEN SetEffect(result).raised
                       ELSE IF ~Awaitable(PyNone) THEN "TypeError" ELSE "none"
         tel_raised == IF set_raised # "none" THEN "none"
                       ELSE CallTelemetry("record_analysis")
         rec == [az[a] EXCEPT
                   !.wrote = az[a].use_cache /\ SetEffect(result).store,
                   !.telemetry = IF set_raised = "none" /\ tel_raised = "none"
                                   THEN 1 ELSE 0]
     IN  /\ IF az[a].use_cache
               THEN SetOnStore(az[a].key, result, default_ttl)
               ELSE UNCHANGED cachevars
         /\ IF set_raised # "none" THEN EndCall(a, rec, HandlerRaises(set_raised), PyNone)
            ELSE IF tel_raised # "none" THEN EndCall(a, rec, HandlerRaises(tel_raised), PyNone)
            ELSE EndCall(a, rec, "none", result)
  /\ UNCHANGED <<rlvars, clock, ticks, wrvars, hashseed, shut>>

\* AIServiceManager.__exit__, called by shutdown_event: executor.shutdown
\* marks the executor as shut down ...
ShutdownBegin(p) ==
  /\ shut[p].state = "open"
  /\ shut' = [shut EXCEPT ![p] =
                 [state |-> "draining",
                  pending |-> Cardinality(InPool(p, {"queued", "running"}))]]
  /\ UNCHANGED <<rlvars, clock, ticks, cachevars, wrvars, az, hashseed>>

\* ... and, with wait=True, returns once the worker threads have run every
\* task that was submitted
ShutdownEnd(p) ==
  /\ shut[p].state = "draining"
  /\ ShutdownWait => InPool(p, {"queued", "running"}) = {}
  /\ shut' = [shut EXCEPT ![p].state = "closed"]
  /\ UNCHANGED <<rlvars, clock, ticks, cachevars, wrvars, az, hashseed>>

\* variant: only the first key of the list is deleted
DeleteKeysFirstOnly(c, keys) ==
  [k \in DOMAIN c |->
     IF keys # {} /\ k = (CHOOSE x \in keys : TRUE) THEN NoEntry ELSE c[k]]

\* DEL of each key of keys, on either connection to the one server
DeleteKeys(c, keys) == [k \in DOMAIN c |-> IF k \in keys THEN NoEntry ELSE c[k]]

\* the delete operations: DEL through redis_client, then through binary_redis
DeleteBoth(keys, op, key) ==
  /\ cache' = DeleteKeys(DeleteKeys(cache, keys), keys)
  /\ cache_ret' = Outcome(op, key, "none", PyNone)
  /\ deleted' = [named |-> keys, since |-> deleted.since \cup keys]
  /\ UNCHANGED <<rlvars, clock, ticks, last_set, wrvars, azvars>>

\* CacheManager.delete(key)
CacheDelete(key) == DeleteBoth({key}, "delete", key)

\* CacheManager.delete_many(keys): one pipeline per connection
CacheDeleteMany(keys) == DeleteBoth(keys, "delete_many", "")

Next ==
  \/ \E p \in Procs, k \in ClientKeys, t \in CallTiers : StartRequest(p, k, t, MaxCalls)
  \/ \E p \in Procs : CheckRateLimit(p)
  \/ \E p \in Procs : GetRateLimitHeaders(p)
  \/ \E d \in TickSteps : Tick(d, MaxTicks)

Spec == Init /\ [][Next]_vars

\* every tier, one call fewer
NextTiers ==
  \/ \E p \in Procs, k \in ClientKeys, t \in Tiers : StartRequest(p, k, t, MaxCalls - 1)
  \/ \E p \in Procs : CheckRateLimit(p)
  \/ \E p \in Procs : GetRateLimitHeaders(p)
  \/ \E d \in TickSteps : Tick(d, MaxTicks)

SpecTiers == Init /\ [][NextTiers]_vars

\* the shared store may be unreachable at any call
NextOutage ==
  \/ \E p \in Procs, k \in ClientKeys, t \in CallTiers : StartRequest(p, k, t, MaxCalls - 1)
  \/ \E p \in Procs : CheckRateLimit(p)
  \/ \E p \in Procs : CheckRateLimitFails(p)
  \/ \E p \in Procs : GetRateLimitHeaders(p)
  \/ \E p \in Procs : GetRateLimitHeadersFails(p)
  \/ \E d \in TickSteps : Tick(d, MaxTicks)

SpecOutage == Init /\ [][NextOutage]_vars

\* one client of an unconfigured tier, with time for a window to pass and
\* for a call to be delayed
NextRefill ==
  \/ \E p \in Procs : StartRequest(p, <<"c1">>, "basic", MaxCalls)
  \/ \E p \in Procs : CheckRateLimit(p)
  \/ \E p \in Procs : GetRateLimitHeaders(p)
  \/ \E d \in TickSteps : Tick(d, MaxTicks + 1)

SpecRefill == Init /\ [][NextRefill]_vars

\* one free-tier client issuing a burst and one call more in succession,
\* each call after the response to the one before
BurstCalls == tier_configs.free.burst_size + 1

NextBurst ==
  \/ StartRequest("fe1", <<"c1">>, "free", BurstCalls)
  \/ \E p \in Procs : CheckRateLimit(p)
  \/ \E p \in Procs : GetRateLimitHeaders(p)
  \/ Tick(1, MaxTicks)

SpecBurst == Init /\ [][NextBurst]_vars

\* the cache manager on its own
NextCache ==
  \/ \E k \in CacheKeys, v \in PyValues, t \in TtlArgs : CacheSet(k, v, t)
  \/ \E k \in CacheKeys : CacheGet(k, PyNone)
  \/ \E d \in TickSteps : Tick(d, MaxTicks)

SpecCache == Init /\ [][NextCache]_vars

\* tasks calling a function decorated with cached, at the same time
NextCached ==
  \/ \E c \in Callers : WrapperLookup(c, "compute", "('a',)", MaxCalls)
  \/ \E c \in Callers, v \in PyValues : WrapperStore(c, "compute", "('a',)", v)

SpecCached == Init /\ [][NextCached]_vars

\* calls of analyze_code that use the cache, from either process
NextLookup ==
  \E a \in Calls, p \in Procs, c \in Codes, x \in Contexts, up \in BOOLEAN :
    AnalyzeStart(a, p, c, x, TRUE, up)

SpecLookup == Init /\ [][NextLookup]_vars

\* calls of analyze_code in one process, with providers that may fail
NextAnalyze ==
  \/ \E a \in Calls, c \in Codes, uc \in BOOLEAN : AnalyzeStart(a, "fe1", c, "None", uc, TRUE)
  \/ \E a \in Calls, b \in Branches : Submit(a, b)
  \/ \E a \in Calls, b \in Branches : RunBranch(a, b)
  \/ \E a \in Calls, b \in Branches, ok \in BOOLEAN : FinishBranch(a, b, ok)
  \/ \E a \in Calls : GatherRaises(a)
  \/ \E a \in Calls : GatherReturns(a)

SpecAnalyze == Init /\ [][NextAnalyze]_vars

\* calls of analyze_code in one process while the process shuts down
NextShutdown ==
  \/ \E a \in Calls : AnalyzeStart(a, "fe1", "x = 1", "None", FALSE, TRUE)
  \/ \E a \in Calls, b \in Branches : Submit(a, b)
  \/ \E a \in Calls, b \in Branches : RunBranch(a, b)
  \/ \E a \in Calls, b \in Branches, ok \in BOOLEAN : FinishBranch(a, b, ok)
  \/ \E a \in Calls : GatherRaises(a)
  \/ \E a \in Calls : GatherReturns(a)
  \/ ShutdownBegin("fe1")
  \/ ShutdownEnd("fe1")

SpecShutdown == Init /\ [][NextShutdown]_vars

\* the cache manager with its delete operations
NextDelete ==
  \/ \E k \in CacheKeys, v \in PyValues : CacheSet(k, v, NoTtl)
  \/ \E k \in CacheKeys : CacheGet(k, PyNone)
  \/ \E k \in CacheKeys : CacheDelete(k)
  \/ \E ks \in SUBSET CacheKeys : CacheDeleteMany(ks)
  \/ \E d \in TickSteps : Tick(d, MaxTicks)

SpecDelete == Init /\ [][NextDelete]_vars

\* one client of an unconfigured tier whose calls are delayed between the
\* reading of time.time() and the run of the script, over more than a window:
\* a burst of the smaller default configuration, a refused call, a refused
\* call during the wait and the call after the wait
RetrySteps == {1, WindowTicks - 1}
RetryCalls == 2 + 3

NextRetry ==
  \/ \E p \in Procs : StartRequest(p, <<"c1">>, "basic", RetryCalls)
  \/ \E p \in Procs : CheckRateLimit(p)
  \/ \E p \in Procs : GetRateLimitHeaders(p)
  \/ \E d \in RetrySteps : Tick(d, MaxTicks + 1)

SpecRetry == Init /\ [][NextRetry]_vars

\* clients whose keys may hold the separator, under a configured and an
\* unconfigured tier
NextKeys ==
  \/ \E p \in Procs, k \in ClientKeys \cup ColonKeys, t \in CallTiers :
       StartRequest(p, k, t, MaxCalls - 1)
  \/ \E p \in Procs : CheckRateLimit(p)
  \/ \E p \in Procs : GetRateLimitHeaders(p)
  \/ \E d \in TickSteps : Tick(d, MaxTicks)

SpecKeys == Init /\ [][NextKeys]_vars

\* ------------------------------------------------------------------ claims

\* the Lua script ran for request p in this step
Consumed(p) == pc[p] = "eval" /\ pc'[p] # "eval" /\ Len(log') = Len(log) + 1

\* C1: in every reachable state every stored bucket holds a token count
\* between 0 and the burst size of each tier whose calls use that bucket.
TokensWithinBurst ==
  \A bk \in AllBucketKeys :
    store[bk].present =>
      /\ store[bk].tokens >= 0
      /\ \A t \in Tiers, k \in ClientKeys :
           LET cfg == ResolveConfig(t, default_config)
           IN  BucketKey(cfg, k) = bk => store[bk].tokens <= cfg.burst_size * TokenUnit

\* a bucket found after a window, refilled up to the cap and consumed once
TokensWithinBurstWitness ==
  \E i \in 1..Len(log) :
       /\ ~log[i].fresh
       /\ log[i].refilled = log[i].burst * TokenUnit
       /\ store[log[i].bk].tokens = (log[i].burst - 1) * TokenUnit

\* C2: a consume whose refilled = min(burst, tokens + rate*elapsed/window) is
\* at least one token is allowed and stores exactly refilled - 1 with
\* lastUpdate = now; one whose refilled is below one token is not allowed.
AdmissionDeterminism ==
  [][\A p \in Procs :
       Consumed(p) =>
         LET cfg == ResolveConfig(req[p].tier, default_config)
             bk == cfg.key_prefix \o req[p].key
             found == store[bk].present /\ clock <= store[bk].expire_at
             tokens == IF found THEN store[bk].tokens ELSE cfg.burst_size * TokenUnit
             elapsed == req[p].now - (IF found THEN store[bk].last_update ELSE 0)
             raw == tokens + cfg.requests_per_minute * elapsed
             refilled == IF raw < cfg.burst_size * TokenUnit
                           THEN raw ELSE cfg.burst_size * TokenUnit
         IN  /\ refilled >= TokenUnit =>
                  /\ allowed'[p]
                  /\ store'[bk].present
                  /\ store'[bk].tokens = refilled - TokenUnit
                  /\ store'[bk].last_update = req[p].now
             /\ refilled < TokenUnit => ~allowed'[p]]_vars

\* an allowed consume, and a refused one that found a bucket record
AdmissionDeterminismWitness ==
  /\ \E i \in 1..Len(log) : log[i].allowed
  /\ \E i \in 1..Len(log) : ~log[i].allowed /\ ~log[i].fresh

\* the runs of the script on the bucket of run i, among runs i..j
BucketRuns(i, j) == {m \in i..j : log[m].bk = log[i].bk}

\* runs i..j on the bucket of run i carry the same timestamp, execute at the
\* same server time and use the same configuration
SameInstant(i, j) ==
  \A m \in BucketRuns(i, j) :
    /\ log[m].now = log[i].now
    /\ log[m].at = log[i].at
    /\ log[m].rate = log[i].rate
    /\ log[m].burst = log[i].burst

\* C3: the script runs are atomic, so k calls at the same instant on a bucket
\* holding n whole tokens admit exactly min(k, n) of them.
NoLostUpdate ==
  \A i \in 1..Len(log) : \A j \in i..Len(log) :
    (SameInstant(i, j) /\ log[i].refilled >= 0 /\ log[i].refilled % TokenUnit = 0) =>
      Cardinality({m \in BucketRuns(i, j) : log[m].allowed})
        = Min(Cardinality(BucketRuns(i, j)), log[i].refilled \div TokenUnit)

\* three calls at one instant on a bucket of two tokens, the third refused,
\* issued by both front-ends
NoLostUpdateWitness ==
  /\ Len(log) >= 3
  /\ SameInstant(1, 3)
  /\ Cardinality(BucketRuns(1, 3)) = 3
  /\ log[1].refilled = 2 * TokenUnit
  /\ ~log[3].allowed
  /\ \A p \in Procs : pc[p] # "idle"

\* C4: a free-tier client without bucket state issues calls in succession,
\* the whole run shorter than the refill interval of one token: calls 1 to
\* 10 are allowed and call 11 is refused with 429.
Rapid(m) == (log[m].now - log[1].now) * tier_configs.free.requests_per_minute < TokenUnit

BurstThenReject ==
  /\ \A m \in 1..Len(log) :
       (log[1].fresh /\ Rapid(m)) =>
         /\ m <= 10 => log[m].allowed
         /\ m = 11 => ~log[m].allowed
  /\ \A p \in Procs :
       pc[p] \in {"rejected", "admitted", "responded"} =>
         ((pc[p] = "rejected" /\ status[p] = 429) <=> ~allowed[p])

\* the eleventh call, later than the first but within the interval, refused
BurstThenRejectWitness ==
  /\ Len(log) = 11
  /\ Rapid(11)
  /\ log[11].now > log[1].now
  /\ ~log[11].allowed
  /\ \E p \in Procs : pc[p] = "rejected" /\ status[p] = 429

\* C5: a consume at T0 + W on a bucket that was emptied at T0, with no call
\* in between, sees min(burst, rate) tokens before it consumes, for every
\* configuration.
RefillAfterWindow ==
  \A j \in 1..Len(log) : \A i \in (j + 1)..Len(log) :
    ( /\ log[i].bk = log[j].bk
      /\ log[j].allowed /\ log[j].refilled = TokenUnit
      /\ \A m \in (j + 1)..(i - 1) : log[m].bk # log[j].bk
      /\ log[i].now = log[j].now + WindowTicks )
    => log[i].refilled = Min(log[i].burst, log[i].rate) * TokenUnit

\* C6 as stated: a consume under tier A leaves the bucket of (B, k) unchanged
\* for every tier B other than A.
TierIsolationAnyTiers ==
  [][\A p \in Procs :
       Consumed(p) =>
         \A b \in Tiers \ {req[p].tier} :
           LET bkB == BucketKey(ResolveConfig(b, default_config), req[p].key)
           IN  store'[bkB] = store[bkB]]_vars

\* C6 amended: a consume under tier A leaves the bucket of (B, k) unchanged
\* for every tier B whose configuration has another key prefix than A's.
TierIsolation ==
  [][\A p \in Procs :
       Consumed(p) =>
         \A b \in Tiers :
           LET cfgA == ResolveConfig(req[p].tier, default_config)
               cfgB == ResolveConfig(b, default_config)
               bkB == BucketKey(cfgB, req[p].key)
           IN  cfgA.key_prefix # cfgB.key_prefix => store'[bkB] = store[bkB]]_vars

\* one client key was admitted under two tiers with different prefixes and
\* holds a bucket for each
TierIsolationWitness ==
  \E i, j \in 1..Len(log) :
    /\ log[i].bk # log[j].bk
    /\ store[log[i].bk].present
    /\ store[log[j].bk].present
    /\ \E k \in ClientKeys, a, b \in Tiers :
         /\ log[i].bk = BucketKey(ResolveConfig(a, default_config), k)
         /\ log[j].bk = BucketKey(ResolveConfig(b, default_config), k)

\* C7: when the store call of a rate-limit check raises, check_rate_limit
\* returns true, the error is logged and the request is not refused.
FailOpenOnStoreError ==
  [][\A p \in Procs :
       (pc[p] = "eval" /\ pc'[p] # "eval" /\ log' = log) =>
         /\ allowed'[p]
         /\ errlog'[p]
         /\ pc'[p] = "admitted"
         /\ status'[p] # 429]_vars

\* a request let through by a failed check, while the other front-end's
\* check on the same bucket ran
FailOpenOnStoreErrorWitness ==
  \E p \in Procs :
    /\ errlog[p] /\ allowed[p] /\ pc[p] = "responded" /\ status[p] = 200
    /\ store[ReqBucket(p)].present

\* C8: every finished call, admitted or refused, carries the three headers.
HeadersOnEveryCall ==
  \A p \in Procs : pc[p] \in {"rejected", "responded"} => headers[p].present

\* C9: the headers of a call report the tier's rate, the window length and
\* the floor of the tokens left by that call's own consume.
HeadersReportOwnConsume ==
  \A p \in Procs :
    (pc[p] = "responded" /\ headers[p].present) =>
      /\ headers[p].limit = Config(p).requests_per_minute
      /\ headers[p].reset = 60
      /\ headers[p].remaining = own[p] \div TokenUnit

\* C10: get(key) after set(key, V), before the TTL of that set has run out
\* and with no other write to key in between, returns a value equal to V.
CacheRoundTrip ==
  \A k \in CacheKeys :
    ( /\ cache_ret.op = "get" /\ cache_ret.key = k
      /\ last_set[k].issued /\ clock <= last_set[k].expire_at )
    => (cache_ret.raised = "none" /\ cache_ret.value = last_set[k].value)

\* C11: get(key) issued after the TTL of the last set(key, ...) has run out,
\* with no set on key since, returns the default; and every entry written is
\* given an expiry later than the time of the write.
CacheExpiry ==
  /\ [](\A k \in CacheKeys :
          ( /\ cache_ret.op = "get" /\ cache_ret.key = k
            /\ last_set[k].issued /\ clock > last_set[k].expire_at )
          => (cache_ret.raised = "none" /\ cache_ret.value = PyNone))
  /\ [][\A k \in CacheKeys :
          (cache'[k].present /\ cache'[k] # cache[k]) => cache'[k].expire_at > clock]_vars

\* C12: delete(key) and delete_many(keys) remove every key they name and
\* leave every other key's entry as it was; a get of a key deleted and not
\* set since returns the default.
DeleteRemovesOnlyNamed ==
  /\ [](\A k \in CacheKeys :
          (cache_ret.op = "get" /\ cache_ret.key = k /\ k \in deleted.since)
          => (cache_ret.raised = "none" /\ cache_ret.value = PyNone))
  /\ [][cache_ret'.op \in {"delete", "delete_many"} =>
          \A k \in CacheKeys :
            /\ k \in deleted'.named =>
                 GetResult(IF Live(cache'[k], clock') THEN cache'[k] ELSE NoEntry,
                           PyNone).value = PyNone
            /\ k \notin deleted'.named => cache'[k] = cache[k]]_vars

\* delete_many named both keys while both held a value, and a get of one of
\* them has returned the default since
DeleteManyWitness ==
  /\ deleted.named = CacheKeys /\ deleted.since = CacheKeys
  /\ \A k \in CacheKeys :
       /\ last_set[k].issued /\ clock <= last_set[k].expire_at
       /\ JsonDumps(last_set[k].value).ok
  /\ cache_ret.op = "get" /\ cache_ret.value = PyNone

\* both tasks missed before either wrote, and both have finished
ConcurrentMisses(c, d) ==
  /\ c # d
  /\ wr[c].pc = "done" /\ wr[d].pc = "done"
  /\ wr[c].miss_at > 0 /\ wr[d].miss_at > 0
  /\ wr[c].miss_at < wr[d].store_at /\ wr[d].miss_at < wr[c].store_at

\* C13: two tasks that look up the same uncached key at the same time each
\* call the function, each write the entry, and the entry left in the store
\* is the one written last.
NoMissDeduplication ==
  \A c, d \in Callers :
    (ConcurrentMisses(c, d) /\ wr[c].store_at < wr[d].store_at) =>
      LET key == WrapperKey("compute", "('a',)")
      IN  /\ wr[c].computed = 1 /\ wr[d].computed = 1
          /\ wr[c].raised = "none" /\ wr[d].raised = "none"
          /\ cache[key].present
          /\ JsonLoads(cache[key].body) = wr[d].value

\* call b arrived after call a had ended, with the same arguments and
\* use_cache, in the same process, the store reachable for both, and no
\* provider failed for a
Succession(a, b) ==
  /\ az[b].pc = "done"
  /\ a \in az[b].after
  /\ az[a].proc = az[b].proc
  /\ az[a].code = az[b].code /\ az[a].context = az[b].context
  /\ az[a].use_cache /\ az[b].use_cache
  /\ az[a].up /\ az[b].up
  /\ \A br \in Branches : az[a].branch[br] \notin {"failed", "refused"}

\* C14: of two calls of analyze_code in succession with the same code and
\* use_cache=true, the second returns a result, the same as the first's, and
\* no provider is invoked for it.
SecondCallServedFromCache ==
  \A a, b \in Calls :
    Succession(a, b) =>
      /\ az[b].raised = "none"
      /\ az[b].result # PyNone
      /\ az[b].result = az[a].result
      /\ az[b].branch = NoBranches

\* C15: the cache keys of two calls are equal exactly when their (code,
\* context) pairs are equal, whichever processes serve them.
FingerprintPure ==
  \A a, b \in Calls :
    (az[a].key # "" /\ az[b].key # "") =>
      ((az[a].key = az[b].key)
         <=> (az[a].code = az[b].code /\ az[a].context = az[b].context))

\* C16: a call one of whose branches failed ends with that provider's
\* failure, and has written no cache entry.
ProviderFailureSurfaced ==
  \A a \in Calls :
    (az[a].pc = "done" /\ \E b \in Branches : az[a].branch[b] = "failed") =>
      (az[a].raised = "ProviderFailure" /\ ~az[a].wrote)

\* C17: a call with use_cache=true that finds the cache store unreachable
\* still returns the analysis result.
CacheOutageBypassed ==
  \A a \in Calls :
    (az[a].pc = "done" /\ az[a].use_cache /\ ~az[a].up) =>
      (az[a].raised = "none" /\ az[a].result # PyNone)

\* C18: a call whose three branches all returned gives its result to the
\* caller, and has emitted the analysis telemetry record exactly once.
TelemetryOnEveryResult ==
  \A a \in Calls :
    (az[a].pc = "done" /\ \A b \in Branches : az[a].branch[b] = "done") =>
      (az[a].raised = "none" /\ az[a].result # PyNone /\ az[a].telemetry = 1)

\* C19: once shutdown has begun the executor accepts no branch, and
\* shutdown has completed only when no submitted branch is queued or running.
PoolDrainedOnShutdown ==
  /\ [](\A p \in Procs :
          shut[p].state = "closed" => InPool(p, {"queued", "running"}) = {})
  /\ [][\A a \in Calls, b \in Branches :
          ( /\ shut[az[a].proc].state # "open"
            /\ az[a].branch[b] = "none" /\ az'[a].branch[b] # "none" )
          => az'[a].branch[b] = "refused"]_vars

\* shutdown began with branches queued or running and has completed, every
\* one of them finished, and a branch submitted later was refused
PoolDrainedOnShutdownWitness ==
  /\ shut["fe1"].state = "closed"
  /\ shut["fe1"].pending > 0
  /\ InPool("fe1", {"done", "failed"}) # {}
  /\ InPool("fe1", {"refused"}) # {}

\* C20: a consume that is refused leaves the bucket record holding
\* tokens = refilled and lastUpdate = now.
RejectedConsumePersists ==
  [][\A p \in Procs :
       (Consumed(p) /\ ~allowed'[p]) =>
         LET bk == ReqBucket(p)
             last == log'[Len(log')]
         IN  /\ store'[bk].present
             /\ store'[bk].tokens = last.refilled
             /\ store'[bk].last_update = req[p].now]_vars

\* C21: elapsed time is clamped at zero: a consume whose timestamp is earlier
\* than the lastUpdate of the bucket record it finds computes
\* refilled = min(burst, tokens).
ElapsedClamped ==
  [][\A p \in Procs :
       LET bk == ReqBucket(p)
           bucket == HGetAll(store, bk, clock)
       IN  (Consumed(p) /\ bucket.present /\ req[p].now < bucket.last_update) =>
             log'[Len(log')].refilled =
               Min(Config(p).burst_size * TokenUnit, bucket.tokens)]_vars

\* C22: every cache entry stores, together with the payload, an explicit tag
\* naming the encoding that set chose (structured or opaque).
EntryCarriesEncodingTag ==
  \A k \in CacheKeys :
    cache[k].present => "encodingTag" \in DOMAIN RedisValue(cache[k].body)

\* C23: detached cancellation policy: once a branch of a call has failed the
\* call can end with the error whatever the state of its other branches; the
\* step that ends it leaves the other branches as they are, and they can
\* still be run to their end in the pool afterwards; the failed call holds no
\* result and wrote no cache entry, and the branches that end after it change
\* neither the cache nor the outcome of the call.
DetachedCancellation ==
  /\ [](\A a \in Calls :
          /\ ( /\ az[a].pc = "gather"
               /\ \A b \in Branches : az[a].branch[b] # "none"
               /\ \E b \in Branches : az[a].branch[b] = "failed" )
             => ENABLED GatherRaises(a)
          /\ (az[a].pc = "done" /\ az[a].raised # "none")
             => /\ az[a].result = PyNone
                /\ ~az[a].wrote
                /\ \A b \in Branches :
                     az[a].branch[b] = "running" =>
                       ENABLED FinishBranch(a, b, TRUE))
  /\ [][\A a \in Calls :
          /\ (az[a].pc = "gather" /\ az'[a].pc = "done" /\ az'[a].raised # "none")
             => az'[a].branch = az[a].branch
          /\ (az[a].pc = "done" /\ az[a].raised # "none")
             => /\ az'[a].result = PyNone /\ az'[a].raised = az[a].raised
                /\ az'[a].branch # az[a].branch => cache' = cache]_vars

\* a call has ended with an error while one of its branches is still running
\* and another has run to its end
DetachedCancellationWitness ==
  \E a \in Calls :
    /\ az[a].pc = "done" /\ az[a].raised # "none"
    /\ az[a].branch["context"] = "failed"
    /\ az[a].branch["debug"] = "done"
    /\ az[a].branch["optimization"] = "running"

\* C24: a call with use_cache = false neither reads nor writes a cache
\* entry; a call with use_cache = true that misses and whose providers all
\* return has written one entry under analysis:<fingerprint>, with a TTL of
\* 3600 seconds, by the time it ends.
CacheTouchedOnlyWhenAsked ==
  /\ [][\A a \in Calls :
          (az'[a] # az[a] /\ ~az'[a].use_cache) => UNCHANGED cachevars]_vars
  /\ [](\A a \in Calls :
          ( /\ az[a].pc = "done" /\ az[a].use_cache /\ az[a].up
            /\ \A b \in Branches : az[a].branch[b] \notin {"failed", "refused"} )
          => /\ az[a].wrote
             /\ last_set[az[a].key].issued
             /\ \E t \in 0..clock :
                  last_set[az[a].key].expire_at = t + 3600 * TicksPerSec)

\* C25: the branches running at the same time, over all the calls in flight
\* on one service manager, never number more than the workers of its pool;
\* a branch starts to run only from the pool's queue; and a call gets the
\* outcome of its gather only after its three branches were all submitted.
PoolBound ==
  /\ [](\A p \in Procs : Cardinality(InPool(p, {"running"})) <= workers)
  /\ [][\A a \in Calls :
          /\ \A b \in Branches :
               (az[a].branch[b] # "running" /\ az'[a].branch[b] = "running")
                 => az[a].branch[b] = "queued"
          /\ (az[a].pc = "gather" /\ az'[a].pc = "done")
               => \A b \in Branches : az[a].branch[b] # "none"]_vars

\* every worker is busy and the branches beyond wait in the queue
PoolBoundWitness ==
  /\ Cardinality(InPool("fe1", {"running"})) = workers
  /\ Cardinality(InPool("fe1", {"queued"})) = 2
  /\ \A a \in Calls : az[a].pc = "gather"

\* C26: admission precedes all processing: the handler of a request runs
\* only after check_rate_limit has allowed that request; a request that is
\* refused ends with status 429, its handler never runs, and the step that
\* refuses it touches neither the cache nor the analysis service.
AdmissionFirst ==
  /\ [](\A p \in Procs :
          /\ pc[p] \in {"admitted", "responded"} => allowed[p]
          /\ pc[p] = "rejected" => (~allowed[p] /\ status[p] = 429))
  /\ [][\A p \in Procs :
          /\ (pc[p] # "responded" /\ pc'[p] = "responded")
               => (pc[p] = "admitted" /\ allowed[p])
          /\ pc[p] = "rejected" => pc'[p] \in {"rejected", "eval"}
          /\ (pc[p] = "eval" /\ pc'[p] = "rejected")
               => (UNCHANGED cachevars /\ UNCHANGED azvars)]_vars

\* one request was refused with 429 while another went through its handler
AdmissionFirstWitness ==
  /\ pc["fe1"] = "rejected" /\ status["fe1"] = 429 /\ ~allowed["fe1"]
  /\ pc["fe2"] = "responded" /\ status["fe2"] = 200
  /\ req["fe1"].key = req["fe2"].key /\ req["fe1"].tier = req["fe2"].tier

\* C27: a call with use_cache whose computed result cannot be encoded for
\* the cache is treated as a cache miss: with the store reachable and no
\* provider failing, its providers are run and it returns its result.
SerializationFailureIsMiss ==
  \A a \in Calls :
    ( /\ az[a].pc = "done" /\ az[a].use_cache /\ az[a].up
      /\ ~JsonDumps(AnalysisResult(az[a].code, clock)).ok
      /\ \A b \in Branches : az[a].branch[b] \notin {"failed", "refused"} )
    => /\ az[a].raised = "none"
       /\ az[a].result # PyNone
       /\ \A b \in Branches : az[a].branch[b] = "done"

\* C28: a call that follows a refused call of the same bucket by at least
\* the reset period of 60 seconds (by the timestamps of the two calls), with
\* no call of the bucket admitted between the two, is allowed, however many
\* refused calls lie between them.
RetryAfterReset ==
  \A i, j \in 1..Len(log) :
    ( /\ i < j
      /\ log[i].bk = log[j].bk
      /\ ~log[i].allowed
      /\ log[j].now >= log[i].at + WindowTicks
      /\ \A m \in (i + 1)..(j - 1) : log[m].bk = log[i].bk => ~log[m].allowed )
    => log[j].allowed

\* a call was refused, a second one during the wait too, and the call made
\* a reset period after the first refusal found the record and was allowed
RetryAfterResetWitness ==
  \E i, m, j \in 1..Len(log) :
    /\ i < m /\ m < j
    /\ ~log[i].allowed /\ ~log[m].allowed /\ log[j].allowed
    /\ log[m].at > log[i].at
    /\ log[j].now >= log[i].at + WindowTicks
    /\ ~log[j].fresh

\* the calls of the log from i to j that were admitted
Admitted(i, j) == {m \in i..j : log[m].allowed}

\* C29: token-bucket rate bound: when the calls of a bucket carry
\* non-decreasing timestamps (here: each call runs at the time it carries),
\* the calls admitted from one call to a later one, t apart, number at most
\* burst + rate * t / window, whether or not the record expired in between.
RateBound ==
  (\A m \in 1..Len(log) : log[m].now = log[m].at) =>
    \A i, j \in 1..Len(log) :
      (i <= j /\ log[i].bk = log[j].bk) =>
        Cardinality(Admitted(i, j)) * TokenUnit
          <= log[i].burst * TokenUnit + log[i].rate * (log[j].now - log[i].now)

\* C30: the mapping from (tier, client key) to the bucket record key is
\* injective on the resolved configurations: two calls that ran the script
\* on the same bucket record have the same client key and resolve to the
\* same configuration.
BucketKeyInjective ==
  \A p, q \in Procs :
    ( /\ pc[p] \in {"admitted", "rejected", "responded"}
      /\ pc[q] \in {"admitted", "rejected", "responded"}
      /\ ReqBucket(p) = ReqBucket(q) )
    => (req[p].key = req[q].key /\ Config(p) = Config(q))

====
